---- MODULE Spec2Model ----
(***************************************************************************)
(* A model of package dbx (dbx.go): QueryMaps, QueryJSON, QueryStructs,    *)
(* InsertStruct, extractStructFields and buildFieldMapping, over an        *)
(* executor (the DB interface) and a result set (pgx.Rows) that the        *)
(* environment drives.                                                     *)
(*                                                                         *)
(* Strings are sequences of one-character strings, so that strings.Index,  *)
(* slicing, Join and Sprintf are computed and not assumed.  Positions in a *)
(* field mapping are 0-based, as in the Go code; sequences are 1-based.    *)
(***************************************************************************)
EXTENDS Integers, Sequences, FiniteSets, TLC

VARIABLES pc, op, cols, elemType, rows, fieldMap, result, dest, dest0,
          input, ret, queryCalls, execCalls

vars == <<pc, op, cols, elemType, rows, fieldMap, result, dest, dest0,
          input, ret, queryCalls, execCalls>>

(***************************************************************************)
(* Bounds of the model.                                                    *)
(***************************************************************************)
MaxRows == 2
MaxCols == 2
MaxFields == 2

SeqsUpTo(S, n) == UNION {[1..k -> S] : k \in 0..n}

(***************************************************************************)
(* Maps (Go map[K]V): functions with a finite domain; an assignment to a   *)
(* key that is present overwrites it.                                      *)
(***************************************************************************)
EmptyMap == [x \in {} |-> 0]

MapPut(m, k, v) == [x \in (DOMAIN m) \cup {k} |-> IF x = k THEN v ELSE m[x]]

(***************************************************************************)
(* Strings.                                                                *)
(***************************************************************************)
RECURSIVE IndexFrom(_, _, _)
IndexFrom(s, c, i) ==
    IF i > Len(s) THEN -1
    ELSE IF s[i] = c THEN i - 1
    ELSE IndexFrom(s, c, i + 1)

\* strings.Index(s, c) for a one-character c: the 0-based index of the first
\* occurrence, or -1
StringsIndex(s, c) == IndexFrom(s, c, 1)

\* s[from:] with a 0-based from
SliceFrom(s, from) == SubSeq(s, from + 1, Len(s))

RECURSIVE StringsJoin(_, _)
StringsJoin(elems, sep) ==
    IF Len(elems) = 0 THEN <<>>
    ELSE IF Len(elems) = 1 THEN elems[1]
    ELSE elems[1] \o sep \o StringsJoin(Tail(elems), sep)

Digit(d) == <<"0", "1", "2", "3", "4", "5", "6", "7", "8", "9">>[d + 1]

RECURSIVE FormatDecimal(_)
\* fmt.Sprintf("%d", n) for n >= 0
FormatDecimal(n) ==
    IF n < 10 THEN <<Digit(n)>>
    ELSE FormatDecimal(n \div 10) \o <<Digit(n % 10)>>

(***************************************************************************)
(* Values.  A value is [t |-> its dynamic type, v |-> a sequence of        *)
(* numbers]: an int n is <<n>>, a string its code units, a []byte its      *)
(* bytes, a *[2]byte the two bytes it points to (<<>> for the nil          *)
(* pointer), a *int <<>> when nil.  NullValue is the nil interface.        *)
(***************************************************************************)
ArrayLen == 2

NullValue == [t |-> "nil", v |-> <<>>]
IntValue(n) == [t |-> "int", v |-> <<n>>]
StringValue(s) == [t |-> "string", v |-> s]
BytesValue(b) == [t |-> "bytes", v |-> b]
NilIntPtr == [t |-> "intptr", v |-> <<>>]

\* reflect.Zero(t)
Zero(t) ==
    CASE t = "int" -> [t |-> "int", v |-> <<0>>]
      [] t = "string" -> [t |-> "string", v |-> <<>>]
      [] t = "bytes" -> [t |-> "bytes", v |-> <<>>]
      [] OTHER -> [t |-> t, v |-> <<>>]

\* !val.IsValid() || (val.Kind() == reflect.Ptr && val.IsNil())
IsNull(val) ==
    \/ val.t = "nil"
    \/ val.t \in {"intptr", "arrptr"} /\ val.v = <<>>

\* reflect.Type.ConvertibleTo among the types of the model
ConvertibleTo(from, to) ==
    \/ from = to
    \/ from = "int" /\ to = "string"
    \/ from = "bytes" /\ to = "string"
    \/ from = "string" /\ to = "bytes"
    \/ from = "bytes" /\ to = "arrptr"

\* reflect.Value.Convert panics for a slice shorter than the array
ConvertPanics(val, to) ==
    val.t = "bytes" /\ to = "arrptr" /\ Len(val.v) < ArrayLen

\* string(rune(n)): the UTF-8 encoding of code point n, of U+FFFD when n is
\* no valid code point
RuneToString(n) ==
    IF n < 0 \/ n > 1114111 \/ (n >= 55296 /\ n <= 57343) THEN <<239, 191, 189>>
    ELSE IF n < 128 THEN <<n>>
    ELSE IF n < 2048 THEN <<192 + (n \div 64), 128 + (n % 64)>>
    ELSE IF n < 65536
        THEN <<224 + (n \div 4096), 128 + ((n \div 64) % 64), 128 + (n % 64)>>
    ELSE <<240 + (n \div 262144), 128 + ((n \div 4096) % 64),
           128 + ((n \div 64) % 64), 128 + (n % 64)>>

\* reflect.Value.Convert where it is defined and does not panic
Convert(val, to) ==
    CASE val.t = to -> val
      [] val.t = "int" /\ to = "string" ->
            [t |-> "string", v |-> RuneToString(val.v[1])]
      [] val.t = "bytes" /\ to = "string" -> [t |-> "string", v |-> val.v]
      [] val.t = "string" /\ to = "bytes" -> [t |-> "bytes", v |-> val.v]
      [] val.t = "bytes" /\ to = "arrptr" ->
            [t |-> "arrptr", v |-> SubSeq(val.v, 1, ArrayLen)]
      [] OTHER -> val

(***************************************************************************)
(* Struct types and values.  A struct type is the sequence of its fields   *)
(* in declaration order; a field is [name, tag, type, exported], tag being *)
(* the value of its db tag (<<>> when it has none).                        *)
(***************************************************************************)
Dot == "."
IgnoreTag == <<"-">>

\* reflect.New(elemType).Elem(): every field at its zero value
ZeroStruct(structType) == [i \in 1..Len(structType) |-> Zero(structType[i].type)]

\* dbTag == "" || dbTag == "-"
SkippedTag(dbTag) == dbTag = <<>> \/ dbTag = IgnoreTag

\* the column name of a tag: the tag, or what follows its first "."
TagColumnName(dbTag) ==
    LET dotIndex == StringsIndex(dbTag, Dot)
    IN  IF dotIndex # -1 THEN SliceFrom(dbTag, dotIndex + 1) ELSE dbTag

NoExtract == [fields |-> <<>>, values |-> <<>>, err |-> "", panicked |-> FALSE]

RECURSIVE ExtractLoop(_, _, _, _)
\* the loop of extractStructFields over fields i..NumField
ExtractLoop(t, vals, i, acc) ==
    IF i > Len(t) THEN acc
    ELSE IF SkippedTag(t[i].tag) THEN ExtractLoop(t, vals, i + 1, acc)
    ELSE IF ~t[i].exported
        \* v.Field(i).Interface() panics on an unexported field
        THEN [acc EXCEPT !.fields = Append(acc.fields, TagColumnName(t[i].tag)),
                         !.panicked = TRUE]
    ELSE ExtractLoop(t, vals, i + 1,
            [acc EXCEPT !.fields = Append(acc.fields, TagColumnName(t[i].tag)),
                        !.values = Append(acc.values, vals[i])])

\* v.Kind() after the pointer, if any, has been followed
KindAfterElem(data) ==
    CASE data.kind \in {"struct", "ptr"} -> "struct"
      [] data.kind \in {"nil", "nilptr"} -> "invalid"
      [] OTHER -> "other"

extractStructFields(data) ==
    IF KindAfterElem(data) # "struct"
    THEN [NoExtract EXCEPT !.err = "data must be a struct or pointer to struct"]
    ELSE ExtractLoop(data.type, data.vals, 1, NoExtract)

RECURSIVE ColMapLoopFirstWins(_, _, _)
\* the column index that keeps the first position of a repeated name
ColMapLoopFirstWins(fieldDescs, i, colMap) ==
    IF i > Len(fieldDescs) THEN colMap
    ELSE ColMapLoopFirstWins(fieldDescs, i + 1,
            IF fieldDescs[i] \in DOMAIN colMap THEN colMap
            ELSE MapPut(colMap, fieldDescs[i], i - 1))

RECURSIVE ColMapLoop(_, _, _)
\* colMap[string(fd.Name)] = i, for the columns from i on
ColMapLoop(fieldDescs, i, colMap) ==
    IF i > Len(fieldDescs) THEN colMap
    ELSE ColMapLoop(fieldDescs, i + 1, MapPut(colMap, fieldDescs[i], i - 1))

\* the resolution without the step that tries the part of a table.column tag
\* after the dot
ResolveFieldNoColumnPart(colMap, field) ==
    IF field.tag \in DOMAIN colMap THEN colMap[field.tag]
    ELSE IF field.name \in DOMAIN colMap THEN colMap[field.name]
    ELSE -1

\* the column a field resolves to, or -1
ResolveField(colMap, field) ==
    LET dbTag == field.tag
        dotIndex == StringsIndex(dbTag, Dot)
        columnName == SliceFrom(dbTag, dotIndex + 1)
    IN  IF dbTag \in DOMAIN colMap THEN colMap[dbTag]
        ELSE IF dotIndex # -1 /\ columnName \in DOMAIN colMap THEN colMap[columnName]
        ELSE IF field.name \in DOMAIN colMap THEN colMap[field.name]
        ELSE -1

RECURSIVE FieldMapLoopFirstWins(_, _, _, _)
\* the loop of buildFieldMapping keeping the first field mapped to a column
FieldMapLoopFirstWins(colMap, structType, i, fm) ==
    IF i > Len(structType) THEN fm
    ELSE IF SkippedTag(structType[i].tag)
        THEN FieldMapLoopFirstWins(colMap, structType, i + 1, fm)
    ELSE LET colIndex == ResolveField(colMap, structType[i])
         IN  IF colIndex # -1 /\ colIndex \notin DOMAIN fm
             THEN FieldMapLoopFirstWins(colMap, structType, i + 1,
                                        MapPut(fm, colIndex, i - 1))
             ELSE FieldMapLoopFirstWins(colMap, structType, i + 1, fm)

\* the columns all three rules give a field, none of them ending the search
AllRuleColumns(colMap, field) ==
    LET dotIndex == StringsIndex(field.tag, Dot)
        columnName == SliceFrom(field.tag, dotIndex + 1)
    IN  {colMap[n] : n \in {m \in {field.tag, field.name} : m \in DOMAIN colMap}}
        \cup (IF dotIndex # -1 /\ columnName \in DOMAIN colMap
              THEN {colMap[columnName]} ELSE {})

RECURSIVE PutAll(_, _, _)
PutAll(fm, columns, fieldIndex) ==
    IF columns = {} THEN fm
    ELSE LET c == CHOOSE x \in columns : TRUE
         IN  PutAll(MapPut(fm, c, fieldIndex), columns \ {c}, fieldIndex)

RECURSIVE FieldMapLoopNoContinue(_, _, _, _)
\* the loop of buildFieldMapping without the continue after a rule succeeded:
\* a field is entered at every column one of the rules gives it
FieldMapLoopNoContinue(colMap, structType, i, fm) ==
    IF i > Len(structType) THEN fm
    ELSE IF SkippedTag(structType[i].tag)
        THEN FieldMapLoopNoContinue(colMap, structType, i + 1, fm)
    ELSE FieldMapLoopNoContinue(colMap, structType, i + 1,
            PutAll(fm, AllRuleColumns(colMap, structType[i]), i - 1))

RECURSIVE FieldMapLoop(_, _, _, _)
\* the loop of buildFieldMapping over fields i..NumField (i is 1-based here,
\* the mapping holds the 0-based i - 1)
FieldMapLoop(colMap, structType, i, fm) ==
    IF i > Len(structType) THEN fm
    ELSE IF SkippedTag(structType[i].tag) THEN FieldMapLoop(colMap, structType, i + 1, fm)
    ELSE LET colIndex == ResolveField(colMap, structType[i])
         IN  IF colIndex # -1
             THEN FieldMapLoop(colMap, structType, i + 1, MapPut(fm, colIndex, i - 1))
             ELSE FieldMapLoop(colMap, structType, i + 1, fm)

buildFieldMapping(fieldDescs, structType) ==
    FieldMapLoop(ColMapLoop(fieldDescs, 1, EmptyMap), structType, 1, EmptyMap)

\* the orders in which a range over a Go map may visit its keys
VisitOrders(m) ==
    {o \in [1..Cardinality(DOMAIN m) -> DOMAIN m] :
        \A i, j \in DOMAIN o : i # j => o[i] # o[j]}

\* one iteration of the loop over fieldMap: the value of column colIndex into
\* field fieldIndex of elem
DecodeField(structType, values, colIndex, fieldIndex, acc) ==
    IF acc.panicked \/ ~(colIndex < Len(values) /\ fieldIndex >= 0) THEN acc
    ELSE LET field == structType[fieldIndex + 1]
             val == values[colIndex + 1]
         IN  IF ~field.exported THEN acc
             ELSE IF IsNull(val)
                 THEN [acc EXCEPT !.elem[fieldIndex + 1] = Zero(field.type)]
             ELSE IF ConvertibleTo(val.t, field.type)
                 THEN IF ConvertPanics(val, field.type)
                      THEN [acc EXCEPT !.panicked = TRUE]
                      ELSE [acc EXCEPT !.elem[fieldIndex + 1] = Convert(val, field.type)]
             ELSE acc

RECURSIVE DecodeLoop(_, _, _, _, _, _)
DecodeLoop(fm, order, structType, values, k, acc) ==
    IF k > Len(order) THEN acc
    ELSE DecodeLoop(fm, order, structType, values, k + 1,
            DecodeField(structType, values, order[k], fm[order[k]], acc))

\* the record QueryStructs builds from one row, visiting fieldMap in `order`
DecodeRow(fm, order, structType, values) ==
    DecodeLoop(fm, order, structType, values, 1,
               [elem |-> ZeroStruct(structType), panicked |-> FALSE])

(***************************************************************************)
(* Slices (Go []T): nil or not, and the elements.  append to a nil slice   *)
(* yields a slice that is not nil.                                         *)
(***************************************************************************)
NilSlice == [isNil |-> TRUE, items |-> <<>>]

SliceAppend(s, x) == [isNil |-> FALSE, items |-> Append(s.items, x)]

(***************************************************************************)
(* The inputs the model draws from.                                        *)
(***************************************************************************)
NameA == <<"a">>
NameB == <<"b">>
NameTA == <<"t", ".", "a">>
NameTB == <<"t", ".", "b">>
NameAB == <<"a", ".", "b">>
NameTAB == <<"t", ".", "a", ".", "b">>
NameT == <<"t", ".">>

\* the names of a struct's fields, by position (Go requires them distinct)
FieldName(i) == <<<<"F">>, <<"G">>, <<"H">>, <<"I">>>>[i]

Tags == {<<>>, IgnoreTag, NameA, NameB, NameTA, NameTB, NameTAB, NameT}
ColNames == {NameA, NameB, NameTA, NameAB, FieldName(1), FieldName(2)}

Field(i, tag, type, exported) ==
    [name |-> FieldName(i), tag |-> tag, type |-> type, exported |-> exported]

\* struct types of up to MaxFields fields, the tags drawn from tagSet and
\* (type, exported) from kinds
StructTypes(tagSet, kinds) ==
    UNION {{[i \in 1..k |-> Field(i, f[i][1], f[i][2][1], f[i][2][2])] :
                f \in [1..k -> tagSet \X kinds]} : k \in 0..MaxFields}

\* a value of each field type that is not its zero value
Sample(type) ==
    CASE type = "int" -> IntValue(7)
      [] type = "string" -> StringValue(<<120>>)
      [] OTHER -> [t |-> type, v |-> [i \in 1..ArrayLen |-> i]]

SampleStruct(structType) == [i \in 1..Len(structType) |-> Sample(structType[i].type)]

\* buildFieldMapping reads neither the types nor the visibility of the fields
MapStructs == StructTypes(Tags, {<<"int", TRUE>>})

InsertTags == {<<>>, IgnoreTag, NameA, NameTB, NameTAB}
InsertStructs == StructTypes(InsertTags, {"int", "string"} \X BOOLEAN)

\* what InsertStruct and extractStructFields may be handed: a struct, a pointer
\* to one, a nil pointer, the nil interface, a value that is no struct, a
\* pointer to one
InsertData ==
    {[kind |-> k, type |-> st, vals |-> SampleStruct(st)] :
        k \in {"struct", "ptr"}, st \in InsertStructs}
    \cup {[kind |-> k, type |-> <<>>, vals |-> <<>>] :
            k \in {"nilptr", "nil", "other", "ptrother"}}

Tables == {<<"u">>, <<"t", "2">>}

\* the result sets and element types of the query operations
FlowCols == {<<>>, <<NameA>>, <<NameA, NameB>>, <<NameA, NameA>>}
FlowStructs ==
    { <<>>,
      <<Field(1, NameA, "int", TRUE)>>,
      <<Field(1, NameTA, "string", TRUE), Field(2, NameB, "arrptr", TRUE)>>,
      <<Field(1, NameA, "string", FALSE), Field(2, IgnoreTag, "int", TRUE)>>,
      <<Field(1, NameA, "int", TRUE), Field(2, NameTA, "int", TRUE),
        Field(3, NameB, "string", TRUE)>> }
FlowValues == {NullValue, IntValue(233), StringValue(<<66>>), BytesValue(<<1>>)}
FlowRows == SeqsUpTo(FlowValues, 2)

\* math.NaN(): the float64 that json.Marshal refuses
NaNValue == [t |-> "float64", v |-> <<>>]

\* the rows of the result sets QueryMaps and QueryJSON read
MapRows == SeqsUpTo(FlowValues \cup {NaNValue}, 2)

\* what QueryStructs may be handed as dest: a pointer to a slice of structs,
\* empty or holding one element, and the five shapes it refuses
Dests ==
    {[kind |-> "ptr_slice_struct", elemType |-> st, contents |-> <<>>] :
        st \in FlowStructs}
    \cup {[kind |-> "ptr_slice_struct", elemType |-> st, contents |-> <<SampleStruct(st)>>] :
        st \in FlowStructs}
    \cup {[kind |-> k, elemType |-> <<>>, contents |-> <<IntValue(7)>>] :
            k \in {"nonptr", "ptr_nonslice", "ptr_slice_nonstruct"}}
    \cup {[kind |-> k, elemType |-> <<>>, contents |-> <<>>] : k \in {"nil", "nilptr"}}

(***************************************************************************)
(* The state.  pc is where the call in progress stands: "idle" before it,  *)
(* "rows" inside the loop over the result set, "returned" or "panicked"    *)
(* after it.  rows is the result set the executor's Query returned.        *)
(***************************************************************************)
NoRows == [open |-> FALSE, closed |-> FALSE, current |-> 0,
           delivered |-> <<>>, readAfterClose |-> FALSE]

NoRet == [err |-> "", value |-> <<>>]

Init ==
    /\ pc = "idle"
    /\ op = "none"
    /\ cols = <<>>
    /\ elemType = <<>>
    /\ rows = NoRows
    /\ fieldMap = EmptyMap
    /\ result = NilSlice
    /\ dest = [kind |-> "nil", elemType |-> <<>>, contents |-> <<>>]
    /\ dest0 = [kind |-> "nil", elemType |-> <<>>, contents |-> <<>>]
    /\ input = <<>>
    /\ ret = NoRet
    /\ queryCalls = 0
    /\ execCalls = <<>>

\* rows.Close() called at the end of the function instead of deferred: the
\* early returns leave the result set open
RowsAtExitNotDeferred(r, exit) == IF exit = "ok" THEN [r EXCEPT !.closed = TRUE] ELSE r

\* the result set when the call leaves by `exit`: rows.Close() is deferred, so
\* it runs on every way out, a panic included
RowsAtExit(r, exit) == [r EXCEPT !.closed = TRUE]

\* rows.Next() returned true and rows.Values() was called
RowsRead(r) ==
    [r EXCEPT !.current = r.current + 1,
              !.readAfterClose = r.readAfterClose \/ r.closed]

\* rows.Next() returned false
RowsExhausted(r) == [r EXCEPT !.readAfterClose = r.readAfterClose \/ r.closed]

(***************************************************************************)
(* QueryMaps                                                               *)
(***************************************************************************)
RECURSIVE RowMapLoopFirstWins(_, _, _, _)
\* the row map filled without overwriting a key that is present
RowMapLoopFirstWins(fieldNames, values, i, row) ==
    IF i > Len(values) THEN row
    ELSE RowMapLoopFirstWins(fieldNames, values, i + 1,
            IF fieldNames[i] \in DOMAIN row THEN row
            ELSE MapPut(row, fieldNames[i], values[i]))

RECURSIVE RowMapLoop(_, _, _, _)
\* row[fieldNames[i]] = v, for the values from i on
RowMapLoop(fieldNames, values, i, row) ==
    IF i > Len(values) THEN row
    ELSE RowMapLoop(fieldNames, values, i + 1, MapPut(row, fieldNames[i], values[i]))

\* fieldNames[i] is out of range for a value that has no column
RowMapPanics(fieldNames, values) == Len(values) > Len(fieldNames)

QueryMapsCall ==
    /\ pc = "idle"
    /\ \E c \in FlowCols, queryFails \in BOOLEAN :
        /\ op' = "QueryMaps"
        /\ queryCalls' = queryCalls + 1
        /\ IF queryFails
           THEN /\ ret' = [err |-> "query failed", value |-> NilSlice]
                /\ pc' = "returned"
                /\ UNCHANGED <<cols, rows, result>>
           ELSE /\ cols' = c
                /\ rows' = [NoRows EXCEPT !.open = TRUE]
                /\ result' = NilSlice
                /\ pc' = "rows"
                /\ UNCHANGED ret
    /\ UNCHANGED <<elemType, fieldMap, dest, dest0, input, execCalls>>

\* one turn of the loop of QueryMaps, called directly or by QueryJSON, which
\* hands on the error of QueryMaps as it is
QueryMapsRow ==
    /\ pc = "rows" /\ op \in {"QueryMaps", "QueryJSON"}
    /\ rows.current < MaxRows
    /\ \E valuesFail \in BOOLEAN, values \in MapRows :
        IF valuesFail
        THEN /\ rows' = RowsAtExit(RowsRead(rows), "valuesErr")
             /\ ret' = [err |-> "failed to get row values", value |-> NilSlice]
             /\ pc' = "returned"
             /\ UNCHANGED result
        ELSE IF RowMapPanics(cols, values)
        THEN /\ rows' = RowsAtExit(
                    [RowsRead(rows) EXCEPT !.delivered = Append(@, values)], "panic")
             /\ pc' = "panicked"
             /\ UNCHANGED <<ret, result>>
        ELSE /\ rows' = [RowsRead(rows) EXCEPT !.delivered = Append(@, values)]
             /\ result' = SliceAppend(result, RowMapLoop(cols, values, 1, EmptyMap))
             /\ UNCHANGED <<pc, ret>>
    /\ UNCHANGED <<op, cols, elemType, fieldMap, dest, dest0, input, queryCalls, execCalls>>

QueryMapsEnd ==
    /\ pc = "rows" /\ op = "QueryMaps"
    /\ \E iterFails \in BOOLEAN :
        IF iterFails
        THEN /\ rows' = RowsAtExit(RowsExhausted(rows), "iterErr")
             /\ ret' = [err |-> "row iteration error", value |-> NilSlice]
        ELSE /\ rows' = RowsAtExit(RowsExhausted(rows), "ok")
             /\ ret' = [err |-> "", value |-> result]
    /\ pc' = "returned"
    /\ UNCHANGED <<op, cols, elemType, fieldMap, result, dest, dest0, input,
                   queryCalls, execCalls>>

(***************************************************************************)
(* QueryJSON: QueryMaps, then json.Marshal of the slice it returned.  JSON *)
(* text is a sequence of bytes.                                            *)
(***************************************************************************)
\* the printable ASCII characters from the space (32) to _ (95)
AsciiLow ==
    <<" ", "!", "\"", "#", "$", "%", "&", "'", "(", ")", "*", "+", ",", "-", ".", "/",
      "0", "1", "2", "3", "4", "5", "6", "7", "8", "9", ":", ";", "<", "=", ">", "?",
      "@", "A", "B", "C", "D", "E", "F", "G", "H", "I", "J", "K", "L", "M", "N", "O",
      "P", "Q", "R", "S", "T", "U", "V", "W", "X", "Y", "Z", "[", "\\", "]", "^", "_">>

\* and those from a (97) to ~ (126)
AsciiHigh ==
    <<"a", "b", "c", "d", "e", "f", "g", "h", "i", "j", "k", "l", "m", "n", "o", "p",
      "q", "r", "s", "t", "u", "v", "w", "x", "y", "z", "{", "|", "}", "~">>

\* the byte of a character of a string of the model
Ord(c) ==
    IF \E i \in 1..Len(AsciiLow) : AsciiLow[i] = c
    THEN 31 + (CHOOSE i \in 1..Len(AsciiLow) : AsciiLow[i] = c)
    ELSE 96 + (CHOOSE i \in 1..Len(AsciiHigh) : AsciiHigh[i] = c)

\* []byte(s) of a string of the model
Bytes(s) == [i \in 1..Len(s) |-> Ord(s[i])]

RECURSIVE BytesLess(_, _)
\* a < b for Go strings: bytewise, a proper prefix first
BytesLess(a, b) ==
    IF Len(b) = 0 THEN FALSE
    ELSE IF Len(a) = 0 THEN TRUE
    ELSE IF a[1] # b[1] THEN a[1] < b[1]
    ELSE BytesLess(Tail(a), Tail(b))

RECURSIVE SortedKeys(_)
\* the keys of a map in the order json.Marshal writes them: sorted
SortedKeys(keys) ==
    IF keys = {} THEN <<>>
    ELSE LET k == CHOOSE x \in keys :
                    \A y \in keys \ {x} : BytesLess(Bytes(x), Bytes(y))
         IN  <<k>> \o SortedKeys(keys \ {k})

HexDigit(d) == IF d < 10 THEN 48 + d ELSE 87 + d

\* what the encoder writes for a byte below 0x80 (HTML escaping is on)
JSONAsciiByte(b) ==
    IF b = 34 \/ b = 92 THEN <<92, b>>
    ELSE IF b = 8 THEN <<92, 98>>
    ELSE IF b = 12 THEN <<92, 102>>
    ELSE IF b = 10 THEN <<92, 110>>
    ELSE IF b = 13 THEN <<92, 114>>
    ELSE IF b = 9 THEN <<92, 116>>
    ELSE IF b < 32 \/ b \in {38, 60, 62}
        THEN <<92, 117, 48, 48, HexDigit(b \div 16), HexDigit(b % 16)>>
    ELSE <<b>>

InRange(s, i, lo, hi) == i <= Len(s) /\ s[i] >= lo /\ s[i] <= hi

\* the length of the UTF-8 sequence that starts at s[i], a byte of 0x80 or
\* more; 0 when it is no valid sequence
RuneSize(s, i) ==
    LET b == s[i]
    IN  IF b >= 194 /\ b <= 223
        THEN IF InRange(s, i + 1, 128, 191) THEN 2 ELSE 0
        ELSE IF b >= 224 /\ b <= 239
        THEN IF /\ InRange(s, i + 1, IF b = 224 THEN 160 ELSE 128,
                                     IF b = 237 THEN 159 ELSE 191)
                /\ InRange(s, i + 2, 128, 191)
             THEN 3 ELSE 0
        ELSE IF b >= 240 /\ b <= 244
        THEN IF /\ InRange(s, i + 1, IF b = 240 THEN 144 ELSE 128,
                                     IF b = 244 THEN 143 ELSE 191)
                /\ InRange(s, i + 2, 128, 191)
                /\ InRange(s, i + 3, 128, 191)
             THEN 4 ELSE 0
        ELSE 0

RECURSIVE JSONStringFrom(_, _)
\* the bytes of s from s[i] on, escaped: an invalid byte becomes the escape of
\* U+FFFD, and
\* U+2028 and U+2029 are written as escapes
JSONStringFrom(s, i) ==
    IF i > Len(s) THEN <<>>
    ELSE IF s[i] < 128 THEN JSONAsciiByte(s[i]) \o JSONStringFrom(s, i + 1)
    ELSE LET size == RuneSize(s, i)
         IN  IF size = 0
             THEN <<92, 117, 102, 102, 102, 100>> \o JSONStringFrom(s, i + 1)
             ELSE IF size = 3 /\ s[i] = 226 /\ s[i + 1] = 128 /\ s[i + 2] \in {168, 169}
             THEN <<92, 117, 50, 48, 50, HexDigit(s[i + 2] - 160)>>
                    \o JSONStringFrom(s, i + 3)
             ELSE SubSeq(s, i, i + size - 1) \o JSONStringFrom(s, i + size)

\* a Go string as a JSON string
JSONString(s) == <<34>> \o JSONStringFrom(s, 1) \o <<34>>

\* the character of a 6-bit group in base64.StdEncoding
Base64Char(n) ==
    IF n < 26 THEN 65 + n
    ELSE IF n < 52 THEN 71 + n
    ELSE IF n < 62 THEN n - 4
    ELSE IF n = 62 THEN 43
    ELSE 47

RECURSIVE Base64(_)
\* base64.StdEncoding of a byte sequence, padded with =
Base64(b) ==
    IF Len(b) = 0 THEN <<>>
    ELSE IF Len(b) = 1
        THEN <<Base64Char(b[1] \div 4), Base64Char((b[1] % 4) * 16), 61, 61>>
    ELSE IF Len(b) = 2
        THEN <<Base64Char(b[1] \div 4), Base64Char((b[1] % 4) * 16 + b[2] \div 16),
               Base64Char((b[2] % 16) * 4), 61>>
    ELSE <<Base64Char(b[1] \div 4), Base64Char((b[1] % 4) * 16 + b[2] \div 16),
           Base64Char((b[2] % 16) * 4 + b[3] \div 64), Base64Char(b[3] % 64)>>
            \o Base64(SubSeq(b, 4, Len(b)))

JSONNull == <<110, 117, 108, 108>>

\* an int in decimal
JSONNumber(n) == IF n < 0 THEN <<45>> \o Bytes(FormatDecimal(-n))
                 ELSE Bytes(FormatDecimal(n))

\* json.Marshal refuses the value: a float64 that is NaN
JSONUnsupported(val) == val.t = "float64"

\* a row value as JSON: nil and a nil pointer are null, a []byte is a base64
\* string, a pointer to an array the array of its numbers
JSONValue(val) ==
    CASE IsNull(val) -> JSONNull
      [] val.t = "int" -> JSONNumber(val.v[1])
      [] val.t = "string" -> JSONString(val.v)
      [] val.t = "bytes" -> <<34>> \o Base64(val.v) \o <<34>>
      [] OTHER ->
            <<91>> \o StringsJoin([i \in 1..Len(val.v) |-> JSONNumber(val.v[i])], <<44>>)
                   \o <<93>>

\* a RowMap as a JSON object, its keys sorted
JSONObject(row) ==
    LET keys == SortedKeys(DOMAIN row)
    IN  <<123>>
        \o StringsJoin([i \in 1..Len(keys) |->
                JSONString(Bytes(keys[i])) \o <<58>> \o JSONValue(row[keys[i]])], <<44>>)
        \o <<125>>

\* json.Marshal(rows) fails
MarshalFails(slice) ==
    \E i \in 1..Len(slice.items) :
        \E k \in DOMAIN slice.items[i] : JSONUnsupported(slice.items[i][k])

\* json.Marshal(rows) for a []RowMap it accepts: null for the nil slice
JsonMarshal(slice) ==
    IF slice.isNil THEN JSONNull
    ELSE <<91>>
         \o StringsJoin([i \in 1..Len(slice.items) |-> JSONObject(slice.items[i])], <<44>>)
         \o <<93>>

\* QueryJSON enters QueryMaps, which calls db.Query
QueryJSONCall ==
    /\ pc = "idle"
    /\ \E c \in FlowCols, queryFails \in BOOLEAN :
        /\ op' = "QueryJSON"
        /\ queryCalls' = queryCalls + 1
        /\ IF queryFails
           THEN /\ ret' = [err |-> "query failed", value |-> NilSlice]
                /\ pc' = "returned"
                /\ UNCHANGED <<cols, rows, result>>
           ELSE /\ cols' = c
                /\ rows' = [NoRows EXCEPT !.open = TRUE]
                /\ result' = NilSlice
                /\ pc' = "rows"
                /\ UNCHANGED ret
    /\ UNCHANGED <<elemType, fieldMap, dest, dest0, input, execCalls>>

\* rows.Next() is false: QueryMaps returns, and QueryJSON hands on its error
\* or marshals its slice
QueryJSONEnd ==
    /\ pc = "rows" /\ op = "QueryJSON"
    /\ \E iterFails \in BOOLEAN :
        IF iterFails
        THEN /\ rows' = RowsAtExit(RowsExhausted(rows), "iterErr")
             /\ ret' = [err |-> "row iteration error", value |-> NilSlice]
        ELSE /\ rows' = RowsAtExit(RowsExhausted(rows), "ok")
             /\ ret' = IF MarshalFails(result)
                       THEN [err |-> "json: unsupported value", value |-> NilSlice]
                       ELSE [err |-> "",
                             value |-> [isNil |-> FALSE, items |-> JsonMarshal(result)]]
    /\ pc' = "returned"
    /\ UNCHANGED <<op, cols, elemType, fieldMap, result, dest, dest0, input,
                   queryCalls, execCalls>>

(***************************************************************************)
(* QueryStructs                                                            *)
(***************************************************************************)
\* the checks of dest without the one of the slice's element type
DestShapeErrorNoElemCheck(d) ==
    CASE d.kind = "nil" -> "dest cannot be nil"
      [] d.kind = "nonptr" -> "dest must be a pointer to a slice of structs"
      [] d.kind = "nilptr" -> "dest pointer is nil"
      [] d.kind = "ptr_nonslice" -> "dest must be a pointer to a slice of structs"
      [] OTHER -> ""

\* the checks of dest before the query: the error, or "" when dest is a
\* pointer to a slice of structs
DestShapeError(d) ==
    CASE d.kind = "nil" -> "dest cannot be nil"
      [] d.kind = "nonptr" -> "dest must be a pointer to a slice of structs"
      [] d.kind = "nilptr" -> "dest pointer is nil"
      [] d.kind = "ptr_nonslice" -> "dest must be a pointer to a slice of structs"
      [] d.kind = "ptr_slice_nonstruct" -> "slice elements must be structs"
      [] OTHER -> ""

QueryStructsCall ==
    /\ pc = "idle"
    /\ \E d \in Dests, c \in FlowCols, queryFails \in BOOLEAN :
        /\ op' = "QueryStructs"
        /\ dest' = d
        /\ dest0' = d
        /\ IF DestShapeError(d) # ""
           THEN /\ ret' = [err |-> DestShapeError(d), value |-> <<>>]
                /\ pc' = "returned"
                /\ UNCHANGED <<cols, elemType, rows, fieldMap, queryCalls>>
           ELSE /\ queryCalls' = queryCalls + 1
                /\ IF queryFails
                   THEN /\ ret' = [err |-> "query failed", value |-> <<>>]
                        /\ pc' = "returned"
                        /\ UNCHANGED <<cols, elemType, rows, fieldMap>>
                   ELSE /\ cols' = c
                        /\ elemType' = d.elemType
                        /\ rows' = [NoRows EXCEPT !.open = TRUE]
                        /\ fieldMap' = buildFieldMapping(c, d.elemType)
                        /\ pc' = "rows"
                        /\ UNCHANGED ret
    /\ UNCHANGED <<result, input, execCalls>>

\* the new record put before the elements dest holds
DestPrepend(d, elem) == [d EXCEPT !.contents = <<elem>> \o d.contents]

\* sliceValue.Set(reflect.Append(sliceValue, elem))
DestAppend(d, elem) == [d EXCEPT !.contents = Append(d.contents, elem)]

QueryStructsRow ==
    /\ pc = "rows" /\ op = "QueryStructs"
    /\ rows.current < MaxRows
    /\ \E valuesFail \in BOOLEAN, values \in FlowRows, order \in VisitOrders(fieldMap) :
        LET decoded == DecodeRow(fieldMap, order, elemType, values)
        IN  IF valuesFail
            THEN /\ rows' = RowsAtExit(RowsRead(rows), "valuesErr")
                 /\ ret' = [err |-> "failed to get row values", value |-> <<>>]
                 /\ pc' = "returned"
                 /\ UNCHANGED dest
            ELSE IF decoded.panicked
            THEN /\ rows' = RowsAtExit(
                        [RowsRead(rows) EXCEPT !.delivered = Append(@, values)], "panic")
                 /\ pc' = "panicked"
                 /\ UNCHANGED <<ret, dest>>
            ELSE /\ rows' = [RowsRead(rows) EXCEPT !.delivered = Append(@, values)]
                 /\ dest' = DestAppend(dest, decoded.elem)
                 /\ UNCHANGED <<pc, ret>>
    /\ UNCHANGED <<op, cols, elemType, fieldMap, result, dest0, input,
                   queryCalls, execCalls>>

QueryStructsEnd ==
    /\ pc = "rows" /\ op = "QueryStructs"
    /\ \E iterFails \in BOOLEAN :
        IF iterFails
        THEN /\ rows' = RowsAtExit(RowsExhausted(rows), "iterErr")
             /\ ret' = [err |-> "row iteration error", value |-> <<>>]
        ELSE /\ rows' = RowsAtExit(RowsExhausted(rows), "ok")
             /\ ret' = [err |-> "", value |-> <<>>]
    /\ pc' = "returned"
    /\ UNCHANGED <<op, cols, elemType, fieldMap, result, dest, dest0, input,
                   queryCalls, execCalls>>

(***************************************************************************)
(* InsertStruct, and the two helpers called on their own                   *)
(***************************************************************************)
InsertInto == <<"I", "N", "S", "E", "R", "T", " ", "I", "N", "T", "O", " ">>
ValuesKeyword == <<")", " ", "V", "A", "L", "U", "E", "S", " ", "(">>
CommaSpace == <<",", " ">>

\* placeholders[i] = fmt.Sprintf("$%d", i+1), i from 0
Placeholders(n) == [i \in 1..n |-> <<"$">> \o FormatDecimal(i)]

\* fmt.Sprintf("INSERT INTO %s (%s) VALUES (%s)", ...)
InsertSQL(table, fields) ==
    InsertInto \o table \o <<" ", "(">> \o StringsJoin(fields, CommaSpace)
        \o ValuesKeyword \o StringsJoin(Placeholders(Len(fields)), CommaSpace) \o <<")">>

\* the check for an empty column list left out
NoFieldsNeverChecked(fields) == FALSE

\* len(fields) == 0
NoFields(fields) == Len(fields) = 0

InsertStructCall ==
    /\ pc = "idle"
    /\ \E table \in Tables, data \in InsertData, execFails \in BOOLEAN :
        LET ex == extractStructFields(data)
        IN  /\ op' = "InsertStruct"
            /\ input' = [table |-> table, data |-> data]
            /\ IF ex.panicked
               THEN /\ pc' = "panicked"
                    /\ UNCHANGED <<ret, execCalls>>
               ELSE IF ex.err # ""
               THEN /\ pc' = "returned"
                    /\ ret' = [err |-> "failed to extract struct fields", value |-> <<>>]
                    /\ UNCHANGED execCalls
               ELSE IF NoFields(ex.fields)
               THEN /\ pc' = "returned"
                    /\ ret' = [err |-> "no valid fields found for insertion", value |-> <<>>]
                    /\ UNCHANGED execCalls
               ELSE /\ pc' = "returned"
                    /\ execCalls' = Append(execCalls,
                            [sql |-> InsertSQL(table, ex.fields), args |-> ex.values])
                    /\ ret' = [err |-> IF execFails THEN "insert failed" ELSE "",
                               value |-> <<>>]
    /\ UNCHANGED <<cols, elemType, rows, fieldMap, result, dest, dest0, queryCalls>>

ExtractStructFieldsCall ==
    /\ pc = "idle"
    /\ \E data \in InsertData :
        LET ex == extractStructFields(data)
        IN  /\ op' = "extractStructFields"
            /\ input' = [table |-> <<>>, data |-> data]
            /\ IF ex.panicked
               THEN /\ pc' = "panicked"
                    /\ UNCHANGED ret
               ELSE /\ pc' = "returned"
                    /\ ret' = [err |-> ex.err,
                               value |-> [fields |-> ex.fields, values |-> ex.values]]
    /\ UNCHANGED <<cols, elemType, rows, fieldMap, result, dest, dest0,
                   queryCalls, execCalls>>

BuildFieldMappingCall ==
    /\ pc = "idle"
    /\ \E c \in SeqsUpTo(ColNames, MaxCols), st \in MapStructs :
        /\ op' = "buildFieldMapping"
        /\ cols' = c
        /\ elemType' = st
        /\ fieldMap' = buildFieldMapping(c, st)
    /\ pc' = "returned"
    /\ ret' = NoRet
    /\ UNCHANGED <<rows, result, dest, dest0, input, queryCalls, execCalls>>

Next ==
    \/ QueryMapsCall
    \/ QueryMapsRow
    \/ QueryMapsEnd
    \/ QueryJSONCall
    \/ QueryJSONEnd
    \/ QueryStructsCall
    \/ QueryStructsRow
    \/ QueryStructsEnd
    \/ InsertStructCall
    \/ ExtractStructFieldsCall
    \/ BuildFieldMappingCall

Spec == Init /\ [][Next]_vars

(***************************************************************************)
(* Properties                                                              *)
(***************************************************************************)
\* QueryJSON runs QueryMaps
QueryOp == op \in {"QueryMaps", "QueryJSON", "QueryStructs"}
Left == pc \in {"returned", "panicked"}
RowFailure == ret.err \in {"failed to get row values", "row iteration error"}

\* C1: in QueryMaps and QueryStructs, a result set that Query returned is
\* closed once the operation has left, on every way out (normal completion, a
\* Values error at any row, an Err error after exhaustion), and no row is
\* read from it after it has been closed.
C1_RowsClosedOnEveryExit ==
    QueryOp =>
        /\ (Left /\ rows.open) => rows.closed
        /\ ~rows.readAfterClose

\* a Values error at the second row, the result set closed
C1_Witness ==
    /\ op = "QueryStructs" /\ pc = "returned"
    /\ ret.err = "failed to get row values"
    /\ rows.open /\ rows.current = 2 /\ rows.closed

\* C2: QueryStructs called with a dest that is nil, no pointer, a nil
\* pointer, a pointer to something that is no slice, or a pointer to a slice
\* whose elements are no structs returns an error, never invokes Query and
\* leaves dest unchanged.
C2_BadDestRejectedBeforeQuery ==
    (op = "QueryStructs" /\ dest0.kind # "ptr_slice_struct") =>
        /\ pc = "returned"
        /\ ret.err # ""
        /\ queryCalls = 0
        /\ ~rows.open
        /\ dest = dest0

\* a pointer to a slice of non-structs was refused
C2_Witness ==
    /\ op = "QueryStructs" /\ pc = "returned"
    /\ dest0.kind = "ptr_slice_nonstruct"
    /\ ret.err = "slice elements must be structs"
    /\ queryCalls = 0

\* C3: when Values fails at a row, or Err reports an error after the
\* iteration, QueryMaps and QueryStructs return an error and the caller
\* receives none of the rows decoded before the failure: QueryMaps returns no
\* rows and the destination of QueryStructs holds what it held before.
C3_FailureDiscardsDecodedRows ==
    (QueryOp /\ pc = "returned" /\ RowFailure) =>
        /\ op \in {"QueryMaps", "QueryJSON"} => Len(ret.value.items) = 0
        /\ op = "QueryStructs" => dest.contents = dest0.contents

\* C4: for a result set with no rows QueryMaps succeeds and returns an empty
\* sequence that is not nil; QueryJSON, which marshals what QueryMaps
\* returned, gives the empty array [] for it.
C4_EmptyResultIsNotNil ==
    /\ (op = "QueryMaps" /\ pc = "returned" /\ ret.err = "" /\ rows.current = 0) =>
        /\ ret.value.items = <<>>
        /\ ~ret.value.isNil
    /\ (op = "QueryJSON" /\ pc = "returned" /\ ret.err = "" /\ rows.current = 0) =>
        ret.value.items = <<91, 93>>

\* C5: after a successful QueryStructs over n rows the destination holds its
\* previous elements unchanged as a prefix, followed by exactly n records, the
\* k-th of them decoded from the k-th row; for n = 0 its length is unchanged.
C5_AppendsOneRecordPerRowInOrder ==
    (op = "QueryStructs" /\ pc = "returned" /\ ret.err = "") =>
        LET before == Len(dest0.contents)
            n == rows.current
        IN  /\ Len(rows.delivered) = n
            /\ Len(dest.contents) = before + n
            /\ SubSeq(dest.contents, 1, before) = dest0.contents
            /\ \A k \in 1..n :
                \E order \in VisitOrders(fieldMap) :
                    dest.contents[before + k]
                        = DecodeRow(fieldMap, order, elemType, rows.delivered[k]).elem

\* two different rows decoded behind an element the destination already held
C5_Witness ==
    /\ op = "QueryStructs" /\ pc = "returned" /\ ret.err = ""
    /\ Len(dest0.contents) = 1 /\ rows.current = 2
    /\ Len(dest.contents) = 3
    /\ dest.contents[1] # dest.contents[2]
    /\ dest.contents[2] # dest.contents[3]

(***************************************************************************)
(* What the claims about extraction and insertion expect, stated from the  *)
(* fields and not by the loop of extractStructFields.                      *)
(***************************************************************************)
HasDot(s) == \E i \in 1..Len(s) : s[i] = Dot

\* the fields that carry a tag other than "-"
KeptFields(structType) ==
    {i \in 1..Len(structType) : structType[i].tag # <<>> /\ structType[i].tag # <<"-">>}

\* the k-th smallest element of a set of numbers
Kth(S, k) == CHOOSE i \in S : Cardinality({j \in S : j < i}) = k - 1

\* the tag itself, or for a tag with a "." what follows the first one
ExpectedColumn(tag) ==
    IF ~HasDot(tag) THEN tag
    ELSE LET first == CHOOSE q \in 1..Len(tag) :
                        tag[q] = Dot /\ \A j \in 1..(q - 1) : tag[j] # Dot
         IN  SubSeq(tag, first + 1, Len(tag))

ExpectedColumns(structType) ==
    [k \in 1..Cardinality(KeptFields(structType)) |->
        ExpectedColumn(structType[Kth(KeptFields(structType), k)].tag)]

ExpectedValues(structType, vals) ==
    [k \in 1..Cardinality(KeptFields(structType)) |-> vals[Kth(KeptFields(structType), k)]]

\* INSERT INTO <table> (c1, ..., cn) VALUES ($1, ..., $n)
ExpectedStatement(table, columns) ==
    InsertInto \o table \o <<" ", "(">> \o StringsJoin(columns, CommaSpace)
        \o <<")", " ", "V", "A", "L", "U", "E", "S", " ", "(">>
        \o StringsJoin([k \in 1..Len(columns) |-> <<"$">> \o FormatDecimal(k)], CommaSpace)
        \o <<")">>

IsStructOrPointerToStruct(data) == data.kind \in {"struct", "ptr"}

\* C6: for every record with at least one non-ignored field InsertStruct calls
\* Exec exactly once, with INSERT INTO <table> (c1, ..., cn) VALUES ($1, ..., $n),
\* c1..cn the column names of the non-ignored fields in declaration order, and
\* with the values of those fields, in that order, as the arguments.
C6_InsertsOnceWithColumnsInOrder ==
    (/\ op = "InsertStruct"
     /\ IsStructOrPointerToStruct(input.data)
     /\ KeptFields(input.data.type) # {}) =>
        /\ pc = "returned"
        /\ execCalls =
            << [sql |-> ExpectedStatement(input.table, ExpectedColumns(input.data.type)),
                args |-> ExpectedValues(input.data.type, input.data.vals)] >>

\* C7: InsertStruct returns an error and never invokes Exec when the record
\* is no struct and no pointer to a struct, or when every field of the record
\* is ignored.
C7_NothingToInsertIsAnError ==
    (/\ op = "InsertStruct"
     /\ \/ ~IsStructOrPointerToStruct(input.data)
        \/ KeptFields(input.data.type) = {}) =>
        /\ pc = "returned"
        /\ ret.err # ""
        /\ execCalls = <<>>

\* a struct of two fields, both ignored
C7_Witness ==
    /\ op = "InsertStruct" /\ pc = "returned"
    /\ input.data.kind = "struct"
    /\ Len(input.data.type) = 2
    /\ input.data.type[1].tag = <<>> /\ input.data.type[2].tag = IgnoreTag
    /\ ret.err = "no valid fields found for insertion"
    /\ execCalls = <<>>

\* C8: for every struct or pointer to a struct extractStructFields returns a
\* sequence of column names and a sequence of values of equal length, holding
\* in declaration order one entry per field whose tag is neither absent nor
\* "-": the tag, or what follows its first ".", and the field's value.
C8_ExtractsTaggedFieldsInOrder ==
    (op = "extractStructFields" /\ IsStructOrPointerToStruct(input.data)) =>
        /\ pc = "returned"
        /\ ret.err = ""
        /\ Len(ret.value.fields) = Len(ret.value.values)
        /\ ret.value.fields = ExpectedColumns(input.data.type)
        /\ ret.value.values = ExpectedValues(input.data.type, input.data.vals)

(***************************************************************************)
(* Qualified and bare tags.                                                *)
(***************************************************************************)
\* a tag table.column whose column part is a bare tag: not empty, without a
\* ".", and not the ignore marker
QualifiedTag(tag) ==
    /\ HasDot(tag)
    /\ ExpectedColumn(tag) # <<>>
    /\ ExpectedColumn(tag) # <<"-">>
    /\ ~HasDot(ExpectedColumn(tag))

\* the same struct type with every tag replaced by its column part
BareTagged(structType) ==
    [i \in 1..Len(structType) |->
        [structType[i] EXCEPT !.tag = ExpectedColumn(structType[i].tag)]]

UniqueNames(names) ==
    \A i, j \in 1..Len(names) : i # j => names[i] # names[j]

AllQualified(structType) ==
    \A i \in 1..Len(structType) : QualifiedTag(structType[i].tag)

\* C9 as stated: for any column sequence with unique names, a record type
\* with the tags table.column resolves to the same mapping as the same type
\* with the bare tags column.
C9_QualificationNeverChangesMapping ==
    (op = "buildFieldMapping" /\ UniqueNames(cols) /\ AllQualified(elemType)) =>
        fieldMap = buildFieldMapping(cols, BareTagged(elemType))

\* C9, amended: the same, for column sequences in which no name contains a
\* "." (a column named like a whole tag table.column is matched by the
\* qualified tag and not by the bare one).
C9_QualificationSameOverBareColumns ==
    (/\ op = "buildFieldMapping"
     /\ UniqueNames(cols)
     /\ \A i \in 1..Len(cols) : ~HasDot(cols[i])
     /\ AllQualified(elemType)) =>
        fieldMap = buildFieldMapping(cols, BareTagged(elemType))

\* columns b, a and the tags t.a, t.b: each field resolved by its column part
C9_Witness ==
    /\ op = "buildFieldMapping" /\ pc = "returned"
    /\ cols = <<NameB, NameA>>
    /\ Len(elemType) = 2
    /\ elemType[1].tag = NameTA /\ elemType[2].tag = NameTB
    /\ fieldMap = (0 :> 1) @@ (1 :> 0)

\* C10: in QueryStructs, decoding a row value into its mapped field never
\* aborts the call: a null value gives the field its zero value, a value of a
\* type convertible to the field's type gives it the converted value, any
\* other value leaves it at its zero value; a field with no mapped column is
\* at its zero value in every decoded record.
C10_DecodeNeverAbortsAndFollowsRules ==
    op = "QueryStructs" =>
        /\ pc # "panicked"
        /\ rows.open =>
            \A k \in 1..Len(rows.delivered), f \in 1..Len(elemType) :
                LET record == dest.contents[Len(dest0.contents) + k]
                    values == rows.delivered[k]
                    type == elemType[f].type
                    mapped == {c \in DOMAIN fieldMap :
                                    fieldMap[c] = f - 1 /\ c < Len(values)}
                IN  IF mapped = {} THEN record[f] = Zero(type)
                    ELSE \A c \in mapped :
                        IF IsNull(values[c + 1]) THEN record[f] = Zero(type)
                        ELSE IF ConvertibleTo(values[c + 1].t, type)
                            THEN record[f] = Convert(values[c + 1], type)
                        ELSE record[f] = Zero(type)

(***************************************************************************)
(* Column names and positions, stated from the column sequence.            *)
(***************************************************************************)
\* the 1-based positions, among the first n columns, of the columns named name
PositionsOf(names, name, n) == {i \in 1..n : i <= Len(names) /\ names[i] = name}

\* the greatest element of a non-empty set of numbers
Greatest(S) == CHOOSE i \in S : \A j \in S : j <= i

\* C11: a successful QueryMaps returns one RowMap per result row, in row
\* order; the keys of each RowMap are the column names and the value of a key
\* is the raw row value at that column's position, unmodified; when several
\* columns share a name the key holds the value of the last of them.  (pgx
\* hands out one value per column; of a row that is shorter, the columns that
\* have a value are the keys.)
C11_OneRowMapPerRowKeyedByColumn ==
    (op = "QueryMaps" /\ pc = "returned" /\ ret.err = "") =>
        /\ Len(ret.value.items) = rows.current
        /\ Len(rows.delivered) = rows.current
        /\ \A k \in 1..rows.current :
            LET values == rows.delivered[k]
                row == ret.value.items[k]
            IN  /\ DOMAIN row = {cols[i] : i \in 1..Len(values)}
                /\ \A name \in DOMAIN row :
                    row[name] = values[Greatest(PositionsOf(cols, name, Len(values)))]

\* two rows over two columns of the same name: each map holds the second value
C11_Witness ==
    /\ op = "QueryMaps" /\ pc = "returned" /\ ret.err = ""
    /\ cols = <<NameA, NameA>>
    /\ rows.delivered = << <<IntValue(233), StringValue(<<66>>)>>,
                           <<NullValue, BytesValue(<<1>>)>> >>
    /\ Len(ret.value.items) = 2
    /\ ret.value.items[1][NameA] = StringValue(<<66>>)
    /\ ret.value.items[2][NameA] = BytesValue(<<1>>)

(***************************************************************************)
(* The resolution of a field, stated from the three rules.                 *)
(***************************************************************************)
NamesColumn(names, name) == PositionsOf(names, name, Len(names)) # {}

\* the 0-based position a column name stands for: its last occurrence
LastPosition(names, name) == Greatest(PositionsOf(names, name, Len(names))) - 1

IgnoredField(field) == field.tag = <<>> \/ field.tag = <<"-">>

\* the column a field resolves to by the first rule that succeeds, -1 when
\* the field is ignored or no rule succeeds
RuleColumn(names, field) ==
    IF IgnoredField(field) THEN -1
    ELSE IF NamesColumn(names, field.tag) THEN LastPosition(names, field.tag)
    ELSE IF HasDot(field.tag) /\ NamesColumn(names, ExpectedColumn(field.tag))
        THEN LastPosition(names, ExpectedColumn(field.tag))
    ELSE IF NamesColumn(names, field.name) THEN LastPosition(names, field.name)
    ELSE -1

\* C12: buildFieldMapping resolves each field whose tag is neither absent nor
\* "-" to at most one column, by the first rule that succeeds: the whole tag,
\* the part of the tag after its first ".", the field's name; a name that
\* several columns bear stands for the last of them; ignored fields and fields
\* no rule resolves never appear in the mapping.
C12_FieldsResolveByFirstMatchingRule ==
    op = "buildFieldMapping" =>
        /\ \A c \in DOMAIN fieldMap :
            /\ fieldMap[c] \in 0..(Len(elemType) - 1)
            /\ RuleColumn(cols, elemType[fieldMap[c] + 1]) = c
        /\ \A f \in 1..Len(elemType) :
            RuleColumn(cols, elemType[f]) # -1 =>
                RuleColumn(cols, elemType[f]) \in DOMAIN fieldMap

\* a qualified tag resolved by its column part to the last of two columns a;
\* the ignored second field is not in the mapping
C12_Witness ==
    /\ op = "buildFieldMapping" /\ pc = "returned"
    /\ cols = <<NameA, NameA>>
    /\ Len(elemType) = 2
    /\ elemType[1].tag = NameTA /\ elemType[2].tag = IgnoreTag
    /\ fieldMap = (1 :> 0)

\* the fields of structType that resolve to column c
FieldsAt(names, structType, c) ==
    {f \in 1..Len(structType) : RuleColumn(names, structType[f]) = c}

\* a field that shares the column it resolves to with a field declared later
Shadowed(names, structType, f) ==
    /\ RuleColumn(names, structType[f]) # -1
    /\ \E g \in FieldsAt(names, structType, RuleColumn(names, structType[f])) : g > f

\* C13: when two or more fields resolve to the same column, buildFieldMapping
\* returns no error and the entry of that column is the field declared last
\* among them; the fields declared earlier are absent from the mapping and
\* stay at their zero value in every record QueryStructs decodes.
C13_LastDeclaredFieldWinsSharedColumn ==
    /\ op \in {"buildFieldMapping", "QueryStructs"} =>
        /\ op = "buildFieldMapping" => (pc = "returned" /\ ret.err = "")
        /\ \A c \in DOMAIN fieldMap :
            fieldMap[c] + 1 = Greatest(FieldsAt(cols, elemType, c))
        /\ \A f \in 1..Len(elemType) :
            Shadowed(cols, elemType, f) =>
                \A c \in DOMAIN fieldMap : fieldMap[c] # f - 1
    /\ (op = "QueryStructs" /\ rows.open /\ pc # "panicked") =>
        \A k \in 1..Len(rows.delivered), f \in 1..Len(elemType) :
            Shadowed(cols, elemType, f) =>
                dest.contents[Len(dest0.contents) + k][f] = Zero(elemType[f].type)

\* fields 1 and 2 both resolve to column a: the row's value is in field 2 and
\* field 1 is at zero
C13_Witness ==
    /\ op = "QueryStructs" /\ pc = "returned" /\ ret.err = ""
    /\ Len(elemType) = 3
    /\ cols = <<NameA, NameB>>
    /\ Shadowed(cols, elemType, 1)
    /\ fieldMap = (0 :> 1) @@ (1 :> 2)
    /\ dest0.contents = <<>>
    /\ rows.delivered = << <<IntValue(233), StringValue(<<66>>)>> >>
    /\ dest.contents = << <<IntValue(0), IntValue(233), StringValue(<<66>>)>> >>

\* the outcome of decoding a row: a panic, or the record
DecodeOutcome(fm, order, structType, values) ==
    LET decoded == DecodeRow(fm, order, structType, values)
    IN  IF decoded.panicked THEN <<"panic", <<>>>> ELSE <<"record", decoded.elem>>

\* C14: the mapping buildFieldMapping returns is injective: no two column
\* positions map to the same field position.  So the record QueryStructs
\* decodes from a row is the same in whatever order the entries of the mapping
\* are visited.
C14_MappingInjectiveDecodeOrderFree ==
    /\ op \in {"buildFieldMapping", "QueryStructs"} =>
        \A c1, c2 \in DOMAIN fieldMap : c1 # c2 => fieldMap[c1] # fieldMap[c2]
    /\ (op = "QueryStructs" /\ rows.open) =>
        \A k \in 1..Len(rows.delivered) :
            \A o1, o2 \in VisitOrders(fieldMap) :
                DecodeOutcome(fieldMap, o1, elemType, rows.delivered[k])
                    = DecodeOutcome(fieldMap, o2, elemType, rows.delivered[k])

\* a mapping of two entries, visited in either order, and a row that sets both
\* of its fields
C14_Witness ==
    /\ op = "QueryStructs" /\ pc = "rows"
    /\ fieldMap = (0 :> 1) @@ (1 :> 2)
    /\ Cardinality(VisitOrders(fieldMap)) = 2
    /\ rows.delivered = << <<IntValue(233), StringValue(<<66>>)>> >>
    /\ dest.contents[Len(dest.contents)]
            = <<IntValue(0), IntValue(233), StringValue(<<66>>)>>

====
